---------------------------- MODULE Spec2Model ----------------------------
(***************************************************************************)
(* FRIDAY voice assistant: the session state (app/models/state.py), the    *)
(* command executor (app/services/actions.py) and the two resolvers that   *)
(* deliver utterances to it (app/controllers/api.py, ws.py).               *)
(*                                                                         *)
(* Text is modelled as TLA+ strings over lower-case letters and the space; *)
(* Python's `in`, str.strip and the re patterns of the parser are          *)
(* computed character by character.                                        *)
(***************************************************************************)
EXTENDS Integers, Sequences, FiniteSets, TLC

(***************************************************************************)
(* Python values                                                           *)
(***************************************************************************)
\* None where a str is expected (state.pending_action, m.group(k), "command")
None == "<None>"

\* F(x), with x computed once however often F uses it
Bind(x, F(_)) == CHOOSE r \in { F(v) : v \in {x} } : TRUE

\* s[i] as a one-character string
CharAt(s, i) == SubSeq(s, i, i)

\* c.isspace() on the modelled alphabet
IsSpace(c) == c = " "

\* s[i:].startswith(t)  (i is 1-based)
StartsAt(s, i, t) ==
    /\ i >= 1
    /\ i + Len(t) - 1 <= Len(s)
    /\ SubSeq(s, i, i + Len(t) - 1) = t

\* `t in s` for two str
Contains(s, t) == \E i \in 1..(Len(s) - Len(t) + 1) : StartsAt(s, i, t)

\* number of whitespace characters of s starting at position i
RECURSIVE SpaceRun(_, _)
SpaceRun(s, i) ==
    IF i <= Len(s) /\ IsSpace(CharAt(s, i)) THEN 1 + SpaceRun(s, i + 1) ELSE 0

\* number of whitespace characters of s ending at position i
RECURSIVE SpaceRunBack(_, _)
SpaceRunBack(s, i) ==
    IF i >= 1 /\ IsSpace(CharAt(s, i)) THEN 1 + SpaceRunBack(s, i - 1) ELSE 0

\* s.strip()
Strip(s) ==
    LET a == SpaceRun(s, 1)
        b == SpaceRunBack(s, Len(s))
    IN  IF a >= Len(s) THEN "" ELSE SubSeq(s, a + 1, Len(s) - b)


(***************************************************************************)
(* Python's re, for the patterns of the parser.  A pattern is a sequence   *)
(* of nodes; a match is searched by backtracking in re's priority order    *)
(* (alternatives left to right, greedy longest first, lazy shortest        *)
(* first), so the first match found is the one re returns.                 *)
(***************************************************************************)
Lit(t)      == [t |-> "lit", s |-> t, min |-> 0, lazy |-> FALSE, g |-> 0, alts |-> <<>>]
\* \s+ (min 1) and \s* (min 0), greedy
Ws(min)     == [t |-> "ws", s |-> "", min |-> min, lazy |-> FALSE, g |-> 0, alts |-> <<>>]
\* (.+?) is Dot(1, TRUE, g), (.+) is Dot(1, FALSE, g), (.*) is Dot(0, FALSE, g)
Dot(min, lazy, g) == [t |-> "dot", s |-> "", min |-> min, lazy |-> lazy, g |-> g, alts |-> <<>>]
\* (?:a|b|...) : alts is the sequence of the alternatives, each a pattern
Alt(alts)   == [t |-> "alt", s |-> "", min |-> 0, lazy |-> FALSE, g |-> 0, alts |-> alts]
\* (?:p)? : greedy, the group is tried before the empty match
Opt(p)      == Alt(<<p, <<>>>>)
\* ^ and $
Bol         == [t |-> "bol", s |-> "", min |-> 0, lazy |-> FALSE, g |-> 0, alts |-> <<>>]
Eol         == [t |-> "eol", s |-> "", min |-> 0, lazy |-> FALSE, g |-> 0, alts |-> <<>>]

NoMatch == [ok |-> FALSE, groups |-> <<>>]

\* the candidate lengths lo..hi of a repetition, in the order re tries them
Lengths(lo, hi, lazy) ==
    IF hi < lo THEN <<>>
    ELSE [k \in 1..(hi - lo + 1) |-> IF lazy THEN lo + k - 1 ELSE hi - k + 1]

\* attempts is a set of pairs <<rank, result>>: the result of lowest rank
\* that matched, NoMatch if none did
FirstOk(attempts) ==
    CHOOSE m \in
        { IF \E a \in tried : a[2].ok
          THEN (CHOOSE a \in tried :
                    a[2].ok /\ \A b \in tried : b[2].ok => a[1] <= b[1])[2]
          ELSE NoMatch : tried \in {attempts} } : TRUE

\* the ways the first node of p can match s at position i, as tuples
\* <<rank, the pattern left, the position after, the groups so far>> with the
\* rank in the order re tries them
Continuations(p, s, i, groups) ==
    LET n    == Head(p)
        lens == IF n.t = "ws" THEN Lengths(n.min, SpaceRun(s, i), FALSE)
                ELSE Lengths(n.min, Len(s) - i + 1, n.lazy)
    IN  CASE n.t = "lit" ->
                IF StartsAt(s, i, n.s) THEN { <<1, Tail(p), i + Len(n.s), groups>> }
                ELSE {}
          [] n.t = "ws" ->
                { <<j, Tail(p), i + lens[j], groups>> : j \in DOMAIN lens }
          [] n.t = "dot" ->
                { <<j, Tail(p), i + lens[j],
                    [groups EXCEPT ![n.g] = SubSeq(s, i, i + lens[j] - 1)]>> :
                  j \in DOMAIN lens }
          [] n.t = "alt" ->
                { <<j, n.alts[j] \o Tail(p), i, groups>> : j \in DOMAIN n.alts }
          [] n.t = "bol" -> IF i = 1 THEN { <<1, Tail(p), i, groups>> } ELSE {}
          [] n.t = "eol" -> IF i = Len(s) + 1 THEN { <<1, Tail(p), i, groups>> } ELSE {}

\* pattern p against s from position i, groups matched so far
RECURSIVE MatchAt(_, _, _, _)
MatchAt(p, s, i, groups) ==
    IF p = <<>> THEN [ok |-> TRUE, groups |-> groups]
    ELSE FirstOk({ <<c[1], MatchAt(c[2], s, c[3], c[4])>> :
                   c \in Continuations(p, s, i, groups) })

\* re.search(p, s) with ngroups capturing groups: the leftmost match
re_search(p, s, ngroups) ==
    FirstOk({ <<c[1], MatchAt(c[2], c[3], c[1], [k \in 1..ngroups |-> None])>> :
              c \in { <<i, p, s>> : i \in 1..(Len(s) + 1) } })

\* re.match(p, s): a match at the start of s only
re_match(p, s, ngroups) == MatchAt(p, s, 1, [k \in 1..ngroups |-> None])


(***************************************************************************)
(* What a command does to the outside world, in the order it does it.      *)
(*   say    : a call of the module-level speak(text)                       *)
(*   open   : webbrowser.open(url)                                         *)
(*   thread : threading.Thread(target=action, daemon=True).start()         *)
(* `what` names the line, the site or the action; q is the query in it     *)
(* (q2 the second query of the one line that has two).                     *)
(***************************************************************************)
Say(what, q)  == [ev |-> "say", what |-> what, q |-> q, q2 |-> ""]
Open(what, q) == [ev |-> "open", what |-> what, q |-> q, q2 |-> ""]
Thread(what)  == [ev |-> "thread", what |-> what, q |-> "", q2 |-> ""]

\* the parameterized actions: speak the confirmation, then open the URL
search_google(query)  == << Say("Searching Google for", query),
                            Open("google.com/search", query) >>
search_youtube(query) == << Say("Searching YouTube for", query),
                            Open("youtube.com/results", query) >>
play_music(query)     == << Say("Playing on YouTube", query),
                            Open("youtube.com/results", query) >>
search_spotify(query) == << Say("Searching Spotify for", query),
                            Open("open.spotify.com/search", query) >>
search_reddit(query)  == << Say("Searching Reddit for", query),
                            Open("reddit.com/search", query) >>
search_github(query)  == << Say("Searching GitHub for", query),
                            Open("github.com/search", query) >>

(***************************************************************************)
(* _resolve_pending_action(command_text), as a function of the pending     *)
(* action it reads: whether it resolved one, what it did, and the value it *)
(* leaves in state.pending_action.                                         *)
(***************************************************************************)
PendingActions == { "search_google", "search_youtube", "play_music",
                    "search_spotify", "search_reddit", "search_github" }

PendingCall(pending, query) ==
    CASE pending = "search_google"  -> search_google(query)
      [] pending = "search_youtube" -> search_youtube(query)
      [] pending = "play_music"     -> play_music(query)
      [] pending = "search_spotify" -> search_spotify(query)
      [] pending = "search_reddit"  -> search_reddit(query)
      [] pending = "search_github"  -> search_github(query)
      [] OTHER                      -> <<>>

\* a pending resolution that leaves the pending action in place
resolve_pending_action_keeps(pending, command_text) ==
    IF pending = None
    THEN [handled |-> FALSE, events |-> <<>>, pending |-> pending]
    ELSE [handled |-> pending \in PendingActions,
          events  |-> PendingCall(pending, Strip(command_text)),
          pending |-> pending]

resolve_pending_action(pending, command_text) ==
    IF pending = None
    THEN [handled |-> FALSE, events |-> <<>>, pending |-> pending]
    ELSE [handled |-> pending \in PendingActions,
          events  |-> PendingCall(pending, Strip(command_text)),
          pending |-> None]

(***************************************************************************)
(* The patterns of _parse_and_execute_search, in the order it tries them.  *)
(***************************************************************************)
\* search\s+(.+?)\s+(?:and|then)\s+play(?:\s+(?:the\s+)?(?:music|song))?\s*(.*)
ReCompound ==
    << Lit("search"), Ws(1), Dot(1, TRUE, 1), Ws(1),
       Alt(<< <<Lit("and")>>, <<Lit("then")>> >>), Ws(1), Lit("play"),
       Opt(<< Ws(1), Opt(<<Lit("the"), Ws(1)>>),
              Alt(<< <<Lit("music")>>, <<Lit("song")>> >>) >>),
       Ws(0), Dot(0, FALSE, 2) >>

\* <verb>\s+(.+?)\s+on\s+<site>
ReOn(verb, site) ==
    << Lit(verb), Ws(1), Dot(1, TRUE, 1), Ws(1), Lit("on"), Ws(1), Lit(site) >>

\* (?:search\s+(.+?)\s+on\s+google|^google\s+(.+))
ReGoogle ==
    << Alt(<< ReOn("search", "google"),
              <<Bol, Lit("google"), Ws(1), Dot(1, FALSE, 2)>> >>) >>

\* ^search\s+(.+)
ReSearch == << Bol, Lit("search"), Ws(1), Dot(1, FALSE, 1) >>

\* ^search\s*$
ReBareSearch == << Bol, Lit("search"), Ws(0), Eol >>

\* ^play\s*(music|song|a\s+song)?\s*$
ReBarePlay ==
    << Bol, Lit("play"), Ws(0),
       Opt(<< Alt(<< <<Lit("music")>>, <<Lit("song")>>,
                     <<Lit("a"), Ws(1), Lit("song")>> >>) >>),
       Ws(0), Eol >>

\* ^play\s+(?:music|song|the\s+song)?\s*(.+)
RePlay ==
    << Bol, Lit("play"), Ws(1),
       Opt(<< Alt(<< <<Lit("music")>>, <<Lit("song")>>,
                     <<Lit("the"), Ws(1), Lit("song")>> >>) >>),
       Ws(0), Dot(1, FALSE, 1) >>

\* (?:youtube\s+search|look\s+up)\s+(.+)
ReLookUp ==
    << Alt(<< <<Lit("youtube"), Ws(1), Lit("search")>>,
              <<Lit("look"), Ws(1), Lit("up")>> >>),
       Ws(1), Dot(1, FALSE, 1) >>

\* ^(?:youtube\s+search|look\s+up)\s*$
ReBareLookUp ==
    << Bol,
       Alt(<< <<Lit("youtube"), Ws(1), Lit("search")>>,
              <<Lit("look"), Ws(1), Lit("up")>> >>),
       Ws(0), Eol >>

\* `a or b` for two str (m.group(k) may be None)
OrStr(a, b) == IF a = None \/ a = "" THEN b ELSE a

(***************************************************************************)
(* _parse_and_execute_search(command_lower): the shape that handled the    *)
(* command ("none": not handled), what it did, the value it assigns to     *)
(* state.pending_action (None: no assignment) and the seconds it sleeps.   *)
(***************************************************************************)
Handled(shape, events) ==
    [handled |-> TRUE, shape |-> shape, events |-> events, pending |-> None, sleep |-> 0]

\* a clarification that always waits for a Spotify query
Clarify_for_spotify(shape, line, pending) ==
    [handled |-> TRUE, shape |-> shape, events |-> <<Say(line, "")>>,
     pending |-> "search_spotify", sleep |-> 0]

Clarify(shape, line, pending) ==
    [handled |-> TRUE, shape |-> shape, events |-> <<Say(line, "")>>,
     pending |-> pending, sleep |-> 0]

NotHandled ==
    [handled |-> FALSE, shape |-> "none", events |-> <<>>, pending |-> None, sleep |-> 0]

\* a parser that knows the two single-verb shapes only
parse_single_verb_only(command_lower) ==
    Bind(<<re_search(ReSearch, command_lower, 1), re_search(RePlay, command_lower, 1)>>,
         LAMBDA m :
            IF m[1].ok THEN Handled("search", search_google(Strip(m[1].groups[1])))
            ELSE IF m[2].ok THEN Handled("play", play_music(Strip(m[2].groups[1])))
            ELSE NotHandled)

parse_and_execute_search(command_lower) ==
    LET compound  == re_search(ReCompound, command_lower, 2)
        playSpot  == re_search(ReOn("play", "spotify"), command_lower, 1)
        playTube  == re_search(ReOn("play", "youtube"), command_lower, 1)
        srchTube  == re_search(ReOn("search", "youtube"), command_lower, 1)
        srchSpot  == re_search(ReOn("search", "spotify"), command_lower, 1)
        srchRedd  == re_search(ReOn("search", "reddit"), command_lower, 1)
        srchGith  == re_search(ReOn("search", "github"), command_lower, 1)
        google    == re_search(ReGoogle, command_lower, 2)
        search    == re_search(ReSearch, command_lower, 1)
        play      == re_search(RePlay, command_lower, 1)
        lookUp    == re_search(ReLookUp, command_lower, 1)
    IN  IF compound.ok THEN
            LET search_query == Strip(compound.groups[1])
                play_query   == OrStr(Strip(compound.groups[2]), search_query)
            IN  [handled |-> TRUE, shape |-> "compound",
                 events  |-> << [ev |-> "say", what |-> "Searching for and playing",
                                 q |-> search_query, q2 |-> play_query],
                                Open("google.com/search", search_query),
                                Open("youtube.com/results", play_query) >>,
                 pending |-> None, sleep |-> 1]
        ELSE IF playSpot.ok THEN
            Handled("play_on_spotify", search_spotify(Strip(playSpot.groups[1])))
        ELSE IF playTube.ok THEN
            Handled("play_on_youtube", play_music(Strip(playTube.groups[1])))
        ELSE IF srchTube.ok THEN
            Handled("search_on_youtube", search_youtube(Strip(srchTube.groups[1])))
        ELSE IF srchSpot.ok THEN
            Handled("search_on_spotify", search_spotify(Strip(srchSpot.groups[1])))
        ELSE IF srchRedd.ok THEN
            Handled("search_on_reddit", search_reddit(Strip(srchRedd.groups[1])))
        ELSE IF srchGith.ok THEN
            Handled("search_on_github", search_github(Strip(srchGith.groups[1])))
        ELSE IF google.ok THEN
            Handled("google", search_google(Strip(OrStr(google.groups[1], google.groups[2]))))
        ELSE IF search.ok /\ Strip(search.groups[1]) # "" THEN
            Handled("search", search_google(Strip(search.groups[1])))
        ELSE IF re_match(ReBareSearch, command_lower, 0).ok THEN
            Clarify("bare_search", "Ano ang isesearch ko", "search_google")
        ELSE IF re_match(ReBarePlay, command_lower, 0).ok THEN
            Clarify("bare_play", "Anong kanta ang ipe-play ko", "play_music")
        ELSE IF play.ok /\ Strip(play.groups[1]) # "" THEN
            Handled("play", play_music(Strip(play.groups[1])))
        ELSE IF lookUp.ok THEN
            Handled("look_up", search_youtube(Strip(lookUp.groups[1])))
        ELSE IF re_match(ReBareLookUp, command_lower, 0).ok THEN
            Clarify("bare_look_up", "Ano ang hahanaping ko sa YouTube", "search_youtube")
        ELSE NotHandled


(***************************************************************************)
(* str.lower()                                                             *)
(***************************************************************************)
LowerChar(c) ==
    CASE c = "A" -> "a"
      [] c = "B" -> "b"
      [] c = "C" -> "c"
      [] c = "D" -> "d"
      [] c = "E" -> "e"
      [] c = "F" -> "f"
      [] c = "G" -> "g"
      [] c = "H" -> "h"
      [] c = "I" -> "i"
      [] c = "J" -> "j"
      [] c = "K" -> "k"
      [] c = "L" -> "l"
      [] c = "M" -> "m"
      [] c = "N" -> "n"
      [] c = "O" -> "o"
      [] c = "P" -> "p"
      [] c = "Q" -> "q"
      [] c = "R" -> "r"
      [] c = "S" -> "s"
      [] c = "T" -> "t"
      [] c = "U" -> "u"
      [] c = "V" -> "v"
      [] c = "W" -> "w"
      [] c = "X" -> "x"
      [] c = "Y" -> "y"
      [] c = "Z" -> "z"
      [] OTHER -> c

\* the characters of s from position i on, lower-cased
RECURSIVE LowerFrom(_, _)
LowerFrom(s, i) ==
    IF i > Len(s) THEN "" ELSE LowerChar(CharAt(s, i)) \o LowerFrom(s, i + 1)

\* s.lower()
Lower(s) == LowerFrom(s, 1)

(***************************************************************************)
(* COMMANDS: trigger phrase -> action, in the dict's insertion order.      *)
(***************************************************************************)
COMMANDS == <<
    <<"open browser", "open_browser">>,
    <<"open google", "open_google">>,
    <<"open youtube", "open_youtube">>,
    <<"open chatgpt", "open_chatgpt">>,
    <<"chatgpt", "open_chatgpt">>,
    <<"open copilot", "open_copilot">>,
    <<"copilot", "open_copilot">>,
    <<"open gemini", "open_gemini">>,
    <<"gemini", "open_gemini">>,
    <<"open claude", "open_claude">>,
    <<"open perplexity", "open_perplexity">>,
    <<"open facebook", "open_facebook">>,
    <<"facebook", "open_facebook">>,
    <<"open instagram", "open_instagram">>,
    <<"instagram", "open_instagram">>,
    <<"open twitter", "open_twitter">>,
    <<"open tiktok", "open_tiktok">>,
    <<"tiktok", "open_tiktok">>,
    <<"open reddit", "open_reddit">>,
    <<"open linkedin", "open_linkedin">>,
    <<"open discord", "open_discord">>,
    <<"discord", "open_discord">>,
    <<"open telegram", "open_telegram">>,
    <<"open gmail", "open_gmail">>,
    <<"gmail", "open_gmail">>,
    <<"open google drive", "open_drive">>,
    <<"open drive", "open_drive">>,
    <<"open google docs", "open_docs">>,
    <<"open docs", "open_docs">>,
    <<"open google sheets", "open_sheets">>,
    <<"open google calendar", "open_calendar">>,
    <<"open notion", "open_notion">>,
    <<"open github", "open_github">>,
    <<"github", "open_github">>,
    <<"open netflix", "open_netflix">>,
    <<"netflix", "open_netflix">>,
    <<"open spotify", "open_spotify">>,
    <<"spotify", "open_spotify">>,
    <<"open shopee", "open_shopee">>,
    <<"shopee", "open_shopee">>,
    <<"open lazada", "open_lazada">>,
    <<"lazada", "open_lazada">>,
    <<"open news", "open_news">>,
    <<"open notepad", "open_notepad">>,
    <<"notepad", "open_notepad">>,
    <<"open calculator", "open_calculator">>,
    <<"calculator", "open_calculator">>,
    <<"open file explorer", "open_explorer">>,
    <<"file explorer", "open_explorer">>,
    <<"open paint", "open_paint">>,
    <<"open task manager", "open_task_manager">>,
    <<"task manager", "open_task_manager">>,
    <<"open control panel", "open_control_panel">>,
    <<"open settings", "open_settings">>,
    <<"open cmd", "open_cmd">>,
    <<"open command prompt", "open_cmd">>,
    <<"open powershell", "open_powershell">>,
    <<"powershell", "open_powershell">>,
    <<"open vs code", "open_vscode">>,
    <<"open vscode", "open_vscode">>,
    <<"open snipping tool", "open_snipping_tool">>,
    <<"snip", "open_snipping_tool">>,
    <<"open word", "open_word">>,
    <<"microsoft word", "open_word">>,
    <<"open excel", "open_excel">>,
    <<"microsoft excel", "open_excel">>,
    <<"open powerpoint", "open_powerpoint">>,
    <<"microsoft powerpoint", "open_powerpoint">>,
    <<"open teams", "open_teams">>,
    <<"microsoft teams", "open_teams">>,
    <<"open outlook", "open_outlook">>,
    <<"outlook", "open_outlook">>,
    <<"open store", "open_store">>,
    <<"microsoft store", "open_store">>,
    <<"open camera", "open_camera">>,
    <<"camera", "open_camera">>,
    <<"open clock", "open_clock">>,
    <<"open maps", "open_maps">>,
    <<"open photos", "open_photos">>,
    <<"photos", "open_photos">>,
    <<"open mail", "open_mail">>,
    <<"open onenote", "open_onenote">>,
    <<"onenote", "open_onenote">>,
    <<"minimize all", "minimize_all">>,
    <<"show desktop", "show_desktop">>,
    <<"open action center", "open_action_center">>,
    <<"action center", "open_action_center">>,
    <<"open notifications", "open_notification_center">>,
    <<"notifications", "open_notification_center">>,
    <<"task view", "open_task_view">>,
    <<"open task view", "open_task_view">>,
    <<"new virtual desktop", "open_virtual_desktop">>,
    <<"virtual desktop", "open_virtual_desktop">>,
    <<"next desktop", "switch_virtual_desktop_right">>,
    <<"previous desktop", "switch_virtual_desktop_left">>,
    <<"snap left", "snap_window_left">>,
    <<"snap right", "snap_window_right">>,
    <<"maximize", "maximize_window">>,
    <<"maximize window", "maximize_window">>,
    <<"minimize", "minimize_window">>,
    <<"minimize window", "minimize_window">>,
    <<"close window", "close_window">>,
    <<"close this", "close_window">>,
    <<"switch window", "switch_window">>,
    <<"alt tab", "switch_window">>,
    <<"volume up", "volume_up">>,
    <<"increase volume", "volume_up">>,
    <<"louder", "volume_up">>,
    <<"volume down", "volume_down">>,
    <<"decrease volume", "volume_down">>,
    <<"quieter", "volume_down">>,
    <<"mute", "mute">>,
    <<"unmute", "unmute">>,
    <<"brightness up", "brightness_up">>,
    <<"increase brightness", "brightness_up">>,
    <<"brighter", "brightness_up">>,
    <<"brightness down", "brightness_down">>,
    <<"decrease brightness", "brightness_down">>,
    <<"dimmer", "brightness_down">>,
    <<"take screenshot", "take_screenshot">>,
    <<"screenshot", "take_screenshot">>,
    <<"lock screen", "lock_screen">>,
    <<"lock pc", "lock_screen">>,
    <<"shutdown", "system_shutdown">>,
    <<"turn off", "system_shutdown">>,
    <<"restart", "system_restart">>,
    <<"reboot", "system_restart">>,
    <<"cancel shutdown", "cancel_shutdown">>,
    <<"sleep system", "sleep_system">>,
    <<"hibernate", "sleep_system">>,
    <<"empty recycle bin", "empty_recycle_bin">>,
    <<"clear recycle bin", "empty_recycle_bin">>,
    <<"what time", "get_time">>,
    <<"time", "get_time">>,
    <<"what date", "get_date">>,
    <<"date", "get_date">>,
    <<"today", "get_date">>,
    <<"ip address", "get_ip">>,
    <<"my ip", "get_ip">>,
    <<"battery", "get_battery">>,
    <<"battery status", "get_battery">>,
    <<"cpu usage", "get_cpu">>,
    <<"ram usage", "get_ram">>,
    <<"memory", "get_ram">>,
    <<"shutdown friday", "shutdown_friday">>
>>

\* max(len(keyword)) over the table
MaxKeyLen(cmds) ==
    LET lens == { Len(cmds[i][1]) : i \in DOMAIN cmds }
    IN  IF lens = {} THEN 0 ELSE CHOOSE n \in lens : \A m \in lens : m <= n

\* sorted(cmds, key=lambda x: len(x[0]), reverse=True): longest keyword first,
\* equal lengths in their original order (the sort is stable)
RECURSIVE SortedFrom(_, _)
SortedFrom(cmds, n) ==
    IF n < 0 THEN <<>>
    ELSE SelectSeq(cmds, LAMBDA kv : Len(kv[1]) = n) \o SortedFrom(cmds, n - 1)

SortedByLength(cmds) == SortedFrom(cmds, MaxKeyLen(cmds))

\* the table in the order it is written, as src/Friday.py walks it
unsorted_commands == COMMANDS

sorted_commands == SortedByLength(COMMANDS)

\* for keyword, action in cmds: if keyword in command_lower: ... return
\* the first (keyword, action) of cmds whose keyword is in command_lower
FirstMatch(cmds, command_lower) ==
    Bind({ i \in DOMAIN cmds : Contains(command_lower, cmds[i][1]) }, LAMBDA hits :
        IF hits = {} THEN <<>>
        ELSE cmds[CHOOSE i \in hits : \A j \in hits : i <= j])

(***************************************************************************)
(* execute_command and _execute_command_silent, as functions of the        *)
(* pending action they find and of whether Thread.start() succeeds:        *)
(*   ret      the value returned                                           *)
(*   stage    which step decided: "pending", "parser", "fixed", "error"    *)
(*            (the except branch) or "none" (no match)                     *)
(*   keyword  the trigger matched in COMMANDS (None: none)                 *)
(*   events   what was done, in order                                      *)
(*   pending  state.pending_action afterwards                              *)
(*   sleep    seconds slept on the calling thread                          *)
(*   patched  tts.speak and actions.speak were replaced by silent_speak    *)
(***************************************************************************)
\* steps 0 and 1 the other way round: the parser before the pending action
LocalStagesParserFirst(pending, command_lower) ==
    Bind(parse_and_execute_search(command_lower), LAMBDA r1 :
        IF r1.handled THEN
            [ret |-> TRUE, stage |-> "parser", keyword |-> None, events |-> r1.events,
             pending |-> IF r1.pending # None THEN r1.pending ELSE pending,
             sleep |-> r1.sleep, patched |-> FALSE]
        ELSE IF resolve_pending_action(pending, command_lower).handled THEN
            [ret |-> TRUE, stage |-> "pending", keyword |-> None,
             events |-> resolve_pending_action(pending, command_lower).events,
             pending |-> None, sleep |-> 0, patched |-> FALSE]
        ELSE
            [ret |-> FALSE, stage |-> "none", keyword |-> None, events |-> <<>>,
             pending |-> resolve_pending_action(pending, command_lower).pending,
             sleep |-> 0, patched |-> FALSE])

\* steps 0 and 1, common to both executors
LocalStages(pending, command_lower) ==
    IF resolve_pending_action(pending, command_lower).handled THEN
        [ret |-> TRUE, stage |-> "pending", keyword |-> None,
         events |-> resolve_pending_action(pending, command_lower).events,
         pending |-> resolve_pending_action(pending, command_lower).pending,
         sleep |-> 0, patched |-> FALSE]
    ELSE Bind(parse_and_execute_search(command_lower), LAMBDA r1 :
        IF r1.handled THEN
            [ret |-> TRUE, stage |-> "parser", keyword |-> None, events |-> r1.events,
             pending |-> IF r1.pending # None THEN r1.pending
                         ELSE resolve_pending_action(pending, command_lower).pending,
             sleep |-> r1.sleep, patched |-> FALSE]
        ELSE
            [ret |-> FALSE, stage |-> "none", keyword |-> None, events |-> <<>>,
             pending |-> resolve_pending_action(pending, command_lower).pending,
             sleep |-> 0, patched |-> FALSE])

\* step 2 of execute_command, after the local stages returned local
FixedStage(local, hit, start_ok) ==
    IF local.ret THEN local
    ELSE IF hit = <<>> THEN
        [local EXCEPT !.events = <<Say("I didn't understand that command", "")>>]
    ELSE IF start_ok THEN
        [local EXCEPT !.ret = TRUE, !.stage = "fixed", !.keyword = hit[1],
                      !.events = <<Thread(hit[2])>>]
    ELSE
        [local EXCEPT !.stage = "error", !.keyword = hit[1],
                      !.events = <<Say("I encountered an error executing that command", "")>>]

\* step 2 of _execute_command_silent, after the local stages returned local
FixedStageSilent(local, hit, start_ok) ==
    IF local.ret THEN local
    ELSE IF hit = <<>> THEN local
    ELSE IF start_ok THEN
        [local EXCEPT !.ret = TRUE, !.stage = "fixed", !.keyword = hit[1],
                      !.events = <<Thread(hit[2]), Thread("restore_speak")>>,
                      !.patched = TRUE]
    ELSE
        [local EXCEPT !.stage = "error", !.keyword = hit[1], !.patched = TRUE]

execute_command(pending, command_text, start_ok) ==
    Bind(Strip(Lower(command_text)), LAMBDA command_lower :
        Bind(<<LocalStages(pending, command_lower),
               FirstMatch(sorted_commands, command_lower)>>, LAMBDA r :
            FixedStage(r[1], r[2], start_ok)))

execute_command_silent(pending, command_text, start_ok) ==
    Bind(Strip(Lower(command_text)), LAMBDA command_lower :
        Bind(<<LocalStages(pending, command_lower),
               FirstMatch(sorted_commands, command_lower)>>, LAMBDA r :
            FixedStageSilent(r[1], r[2], start_ok)))


(***************************************************************************)
(* Bounds of the model                                                     *)
(***************************************************************************)
\* the clock stops advancing here
MaxTime == 34

\* utterances delivered to the resolvers in one run
MaxRequests == 3

\* seconds by which the clock advances between two steps
TickSteps == {4, 26}

\* seconds a synchronous ask_gemini call takes
GeminiDelays == {0, 4}

\* the texts delivered to the resolvers: the session slice (wake, sleep, a
\* free-form utterance) and the clarification slice (bare search, its answer,
\* a compound search-and-play)
Utterances == { "Friday", "go to sleep", "kittens" }

ClarifyUtterances == { "Friday", "search", "kittens", "search kittens and play music" }

\* the texts of the slice with the three switches: the wake word, two of
\* the sleep phrases and a free-form utterance
SwitchUtterances == { "Friday", "go to sleep", "Goodbye Friday", "kittens" }

SwitchCommands == { "open google drive", "search kittens" }

\* the "command" values the classifier answers with
MappedCommands == { "open google drive", "kittens" }

ClarifyCommands == { "search", "kittens", "search kittens and play music" }

\* the texts the executors are called with directly
ExecTexts ==
    { "search", "play", "look up", "kittens", "play x on spotify", "open google",
      "please open google drive now", "Open Google Docs", "search kittens and play music",
      "spotify youtube", " " }

\* the texts the parser is exercised with: each shape, and texts that have
\* the form of two shapes
ParserTexts ==
    { "search kittens and play music", "search a then play the song b on spotify",
      "play x on spotify", "play x on youtube", "search x on youtube",
      "search x on spotify", "search x on reddit", "search x on github",
      "search x on google", "google cats", "search kittens", "search", "play",
      "play a song", "play music jazz", "look up cats", "youtube search",
      "kittens", "Search  X  on  Reddit " }

\* what ask_gemini returns: a mapped command with a reply, or a reply alone
AnswersWith(commands) ==
    { [has_command |-> FALSE, command |-> None, speak_response |-> "reply"] }
    \cup { [has_command |-> TRUE, command |-> c, speak_response |-> "on it"] :
           c \in commands }

GeminiAnswers == AnswersWith(MappedCommands)

ClarifyAnswers == AnswersWith(ClarifyCommands)

\* the executors on the commands of the model, computed once
ExecutorInputs == MappedCommands \cup ClarifyCommands \cup ExecTexts \cup ParserTexts

ExecuteTable ==
    [p \in PendingActions \cup {None}, c \in ExecutorInputs, ok \in BOOLEAN |->
        execute_command(p, c, ok)]

ExecuteSilentTable ==
    [p \in PendingActions \cup {None}, c \in ExecutorInputs, ok \in BOOLEAN |->
        execute_command_silent(p, c, ok)]

(***************************************************************************)
(* State                                                                   *)
(***************************************************************************)
VARIABLES
    is_powered_on,     \* SystemState
    is_mic_on,
    is_volume_on,
    last_command,
    awake,
    awake_until,       \* <<>> is None, <<t>> a time
    pending_action,
    dd_last_command,   \* CommandDeduplicator.last_command
    dd_last_time,      \* CommandDeduplicator.last_command_time
    tts_speak,         \* the function app.services.tts.speak names
    actions_speak,     \* the function app.services.actions.speak names
    threads,           \* actions whose thread was started and has not run yet
    restores,          \* restore_speak threads that have not run yet
    ws,                \* where the WebSocket receiver coroutine stands
    now,               \* the wall clock, in seconds
    out,               \* what the last step was and did
    sleep_notes,       \* timeout notifications since the last wake_up()
    requests           \* utterances delivered so far

state_vars == << is_powered_on, is_mic_on, is_volume_on, last_command, awake,
                 awake_until, pending_action >>
dedup_vars == << dd_last_command, dd_last_time >>
speak_vars == << tts_speak, actions_speak, threads, restores >>
vars == << state_vars, dedup_vars, speak_vars, ws, now, out, sleep_notes, requests >>

awake_duration   == 30
duplicate_window == 5

\* one step's record: the operation, its input, its outcome, the calls it made
\* (events), the lines whose playback was started (spoken), whether it called
\* ask_gemini, and the session state at the moment it dispatched an action
Out(op, text, result, events, spoken, asked, dispatch) ==
    [op |-> op, text |-> text, result |-> result, events |-> events,
     spoken |-> spoken, asked |-> asked, dispatch |-> dispatch,
     stage |-> "", keyword |-> None]

\* the record o of a step that called an executor, which returned ex
Executed(o, ex) == [o EXCEPT !.stage = ex.stage, !.keyword = ex.keyword]

NoDispatch == <<>>

Init ==
    /\ is_powered_on = TRUE
    /\ is_mic_on = TRUE
    /\ is_volume_on = TRUE
    /\ last_command = ""
    /\ awake = FALSE
    /\ awake_until = <<>>
    /\ pending_action = None
    /\ dd_last_command = ""
    /\ dd_last_time = 0
    /\ tts_speak = "speak"
    /\ actions_speak = "speak"
    /\ threads = {}
    /\ restores = {}
    /\ ws = [pc |-> "receive", command |-> ""]
    /\ now = 0
    /\ out = Out("init", "", "", <<>>, <<>>, FALSE, NoDispatch)
    /\ sleep_notes = 0
    /\ requests = 0

(***************************************************************************)
(* SystemState and CommandDeduplicator                                     *)
(***************************************************************************)
\* a speak() that reads neither switch
speak_unconditional(lines) == lines

\* tts.speak(text): the lines whose playback thread is started
speak(lines) == IF is_powered_on /\ is_volume_on THEN lines ELSE <<>>

\* a call through a module global `speak` that names fn
speak_via(fn, lines) == IF fn = "speak" THEN speak(lines) ELSE <<>>

\* the say events among events, in order
SayEvents(events) == SelectSeq(events, LAMBDA e : e.ev = "say")

\* the open and thread events among events: the actions dispatched
Dispatched(events) == SelectSeq(events, LAMBDA e : e.ev \in {"open", "thread"})

\* an is_awake() that reports the timeout and leaves the fields as they were
is_awake_keeps_fields(aw, until, t) ==
    IF ~aw THEN
        [ret |-> FALSE, awake |-> aw, awake_until |-> until, notice |-> FALSE]
    ELSE IF until # <<>> /\ t > until[1] THEN
        [ret |-> FALSE, awake |-> aw, awake_until |-> until, notice |-> TRUE]
    ELSE
        [ret |-> TRUE, awake |-> aw, awake_until |-> until, notice |-> FALSE]

\* state.is_awake() at time t: the value returned, the fields afterwards and
\* whether speak_func was called with the sleep notification
is_awake(aw, until, t) ==
    IF ~aw THEN
        [ret |-> FALSE, awake |-> aw, awake_until |-> until, notice |-> FALSE]
    ELSE IF until # <<>> /\ t > until[1] THEN
        [ret |-> FALSE, awake |-> FALSE, awake_until |-> <<>>, notice |-> TRUE]
    ELSE
        [ret |-> TRUE, awake |-> aw, awake_until |-> until, notice |-> FALSE]

SleepNotice(ia) ==
    IF ia.notice THEN <<Say("Sleep mode activated", "")>> ELSE <<>>

\* a wake_up() that sets the flag and no deadline
wake_up_flag_only(t) == [awake |-> TRUE, awake_until |-> <<>>]

\* a wake_up() that sets the flag and opens no window
wake_up_no_window(t) == [awake |-> TRUE, awake_until |-> <<t>>]

\* state.wake_up() at time t: (awake, awake_until) afterwards
wake_up(t) == [awake |-> TRUE, awake_until |-> <<t + awake_duration>>]

\* an extend_awake() that does not read the flag
extend_awake_unguarded(aw, until, t) == <<t + awake_duration>>

\* state.extend_awake() at time t: awake_until afterwards
extend_awake(aw, until, t) == IF aw THEN <<t + awake_duration>> ELSE until

\* state.sleep_now(): (awake, awake_until) afterwards
sleep_now == [awake |-> FALSE, awake_until |-> <<>>]

\* a deduplicator that never lets the window end
is_duplicate_ignores_window(command, t) == command = dd_last_command

\* a deduplicator that rejects whatever follows an accepted utterance within
\* the window, the same text or another
is_duplicate_any_text(command, t) ==
    dd_last_command # "" /\ t - dd_last_time < duplicate_window

\* a deduplicator that accepts everything
is_duplicate_never(command, t) == FALSE

\* deduplicator.is_duplicate(command) at time t: the value returned
is_duplicate(command, t) ==
    command = dd_last_command /\ t - dd_last_time < duplicate_window


(***************************************************************************)
(* What both resolvers share                                               *)
(***************************************************************************)
SleepPhrases == { "go to sleep", "goodbye friday", "sleep friday" }

\* any(phrase in command for phrase in (...))
IsSleepPhrase(command) == \E phrase \in SleepPhrases : Contains(command, phrase)

\* gemini_result.get("has_command") and gemini_result.get("command")
HasCommand(answer) ==
    answer.has_command /\ answer.command # None /\ answer.command # ""

\* the actions among events (restore_speak is the executor's own thread)
ActionsOf(events) ==
    SelectSeq(Dispatched(events), LAMBDA e : e.what # "restore_speak")

\* the session state at the moment events are dispatched at time t
DispatchAt(events, t) ==
    IF ActionsOf(events) = <<>> THEN NoDispatch
    ELSE << [awake |-> awake, awake_until |-> awake_until, at |-> t] >>

\* the action threads started by events
StartedThreads(events) ==
    { events[i].what : i \in { j \in DOMAIN events : events[j].ev = "thread"
                                                      /\ events[j].what # "restore_speak" } }

\* the restore_speak thread started by events at time t: it saved the
\* function tts.speak named before the patch, and sleeps one second
StartedRestores(events, t) ==
    IF \E i \in DOMAIN events : events[i] = Thread("restore_speak")
    THEN { [original_speak |-> tts_speak, at |-> t + 1] }
    ELSE {}

Greeting == <<Say("Good day sir", "")>>
Farewell == <<Say("Going into sleep mode", "")>>

\* the first lines of both resolvers after a non-duplicate command: the wake
\* word.  state.wake_up(); speak(greeting)
\* a wake branch that also drops the pending clarification
WakeWord_clears_pending(op, text) ==
    /\ awake' = wake_up(now).awake
    /\ awake_until' = wake_up(now).awake_until
    /\ sleep_notes' = 0
    /\ pending_action' = None
    /\ out' = Out(op, text, "wake", <<>>, speak(Greeting), FALSE, NoDispatch)
    /\ UNCHANGED << is_powered_on, is_mic_on, is_volume_on, last_command,
                    speak_vars, now >>

WakeWord(op, text) ==
    /\ awake' = wake_up(now).awake
    /\ awake_until' = wake_up(now).awake_until
    /\ sleep_notes' = 0
    /\ out' = Out(op, text, "wake", <<>>, speak(Greeting), FALSE, NoDispatch)
    /\ UNCHANGED << is_powered_on, is_mic_on, is_volume_on, last_command,
                    pending_action, speak_vars, now >>

\* a waiting branch that records the utterance as the last command
Waiting_records_command(op, text, ia) ==
    /\ awake' = ia.awake
    /\ awake_until' = ia.awake_until
    /\ sleep_notes' = IF ia.notice THEN sleep_notes + 1 ELSE sleep_notes
    /\ last_command' = text
    /\ out' = Out(op, text, "waiting", <<>>, speak(SleepNotice(ia)), FALSE, NoDispatch)
    /\ UNCHANGED << is_powered_on, is_mic_on, is_volume_on,
                    pending_action, speak_vars, now >>

\* is_awake() returned False: nothing but what is_awake() itself did
Waiting(op, text, ia) ==
    /\ awake' = ia.awake
    /\ awake_until' = ia.awake_until
    /\ sleep_notes' = IF ia.notice THEN sleep_notes + 1 ELSE sleep_notes
    /\ out' = Out(op, text, "waiting", <<>>, speak(SleepNotice(ia)), FALSE, NoDispatch)
    /\ UNCHANGED << is_powered_on, is_mic_on, is_volume_on, last_command,
                    pending_action, speak_vars, now >>

(***************************************************************************)
(* POST /api/command: receive_command.  The handler has no await, so it    *)
(* runs to its return without another coroutine in between; ask_gemini is  *)
(* called on the event loop and takes `delay` seconds.                     *)
(***************************************************************************)
receive_command(text, answer, delay, start_ok) ==
    LET command == Strip(Lower(text))
        ia      == is_awake(awake, awake_until, now)
        t1      == now + delay
        ex      == ExecuteSilentTable[pending_action, answer.command, start_ok]
        t2      == t1 + ex.sleep
        reply   == IF answer.speak_response # ""
                   THEN <<Say("gemini", answer.speak_response)>> ELSE <<>>
    IN
    /\ command # ""
    /\ IF is_duplicate(command, now) THEN
            /\ out' = Out("receive_command", text, "duplicate", <<>>, <<>>, FALSE, NoDispatch)
            /\ UNCHANGED << state_vars, dedup_vars, speak_vars, ws, now, sleep_notes >>
       ELSE
            /\ dd_last_command' = command
            /\ dd_last_time' = now
            /\ UNCHANGED ws
            /\ IF Contains(command, "friday") THEN
                    WakeWord("receive_command", text)
               ELSE IF IsSleepPhrase(command) /\ ia.ret THEN
                    /\ awake' = sleep_now.awake
                    /\ awake_until' = sleep_now.awake_until
                    /\ out' = Out("receive_command", text, "sleep", <<>>,
                                  speak(Farewell), FALSE, NoDispatch)
                    /\ UNCHANGED << is_powered_on, is_mic_on, is_volume_on, last_command,
                                    pending_action, speak_vars, now, sleep_notes >>
               ELSE IF ia.ret THEN
                    IF HasCommand(answer) THEN
                        /\ t2 <= MaxTime
                        /\ last_command' = answer.command
                        /\ pending_action' = ex.pending
                        /\ tts_speak' = IF ex.patched THEN "silent_speak" ELSE tts_speak
                        /\ actions_speak' = IF ex.patched THEN "silent_speak" ELSE actions_speak
                        /\ threads' = threads \cup StartedThreads(ex.events)
                        /\ restores' = restores \cup StartedRestores(ex.events, t1)
                        /\ awake_until' = IF ex.ret THEN extend_awake(awake, awake_until, t2)
                                          ELSE awake_until
                        /\ now' = t2
                        /\ out' = Executed(Out("receive_command", text,
                                      IF ex.ret THEN "executed" ELSE "not_executed",
                                      ex.events,
                                      speak(reply) \o speak_via(actions_speak, SayEvents(ex.events)),
                                      TRUE, DispatchAt(ex.events, t1)), ex)
                        /\ UNCHANGED << is_powered_on, is_mic_on, is_volume_on, awake,
                                        sleep_notes >>
                    ELSE
                        /\ t1 <= MaxTime
                        /\ awake_until' = extend_awake(awake, awake_until, t1)
                        /\ now' = t1
                        /\ out' = Out("receive_command", text, "reply", <<>>,
                                      speak(reply), TRUE, NoDispatch)
                        /\ UNCHANGED << is_powered_on, is_mic_on, is_volume_on, last_command,
                                        awake, pending_action, speak_vars, sleep_notes >>
               ELSE
                    Waiting("receive_command", text, ia)


(***************************************************************************)
(* /ws: the receiver coroutine.  It awaits ask_gemini in an executor, so   *)
(* other coroutines and the clock run between ws_receive and ws_resume.    *)
(***************************************************************************)
\* from `await websocket.receive_text()` to the first await that follows
ws_receive(text) ==
    LET command == Strip(Lower(text))
        ia      == is_awake(awake, awake_until, now)
    IN
    /\ ws.pc = "receive"
    /\ command # ""
    /\ IF is_duplicate(command, now) THEN
            /\ out' = Out("ws_receive", text, "duplicate", <<>>, <<>>, FALSE, NoDispatch)
            /\ UNCHANGED << state_vars, dedup_vars, speak_vars, ws, now, sleep_notes >>
       ELSE
            /\ dd_last_command' = command
            /\ dd_last_time' = now
            /\ IF Contains(command, "friday") THEN
                    /\ WakeWord("ws_receive", text)
                    /\ UNCHANGED ws
               ELSE IF ia.ret THEN
                    /\ ws' = [pc |-> "gemini", command |-> command]
                    /\ out' = Out("ws_receive", text, "asking", <<>>, <<>>, TRUE, NoDispatch)
                    /\ UNCHANGED << state_vars, speak_vars, now, sleep_notes >>
               ELSE
                    /\ Waiting("ws_receive", text, ia)
                    /\ UNCHANGED ws

\* from the return of ask_gemini to the next `await websocket.receive_text()`
ws_resume(answer, start_ok) ==
    LET ex == ExecuteTable[pending_action, answer.command, start_ok]
        t2 == now + ex.sleep
    IN
    /\ ws.pc = "gemini"
    /\ ws' = [pc |-> "receive", command |-> ""]
    /\ UNCHANGED << dedup_vars, is_powered_on, is_mic_on, is_volume_on, awake,
                    tts_speak, actions_speak, restores, sleep_notes >>
    /\ IF HasCommand(answer) THEN
            /\ t2 <= MaxTime
            /\ last_command' = answer.command
            /\ pending_action' = ex.pending
            /\ threads' = threads \cup StartedThreads(ex.events)
            /\ awake_until' = IF ex.ret THEN extend_awake(awake, awake_until, t2)
                              ELSE awake_until
            /\ now' = t2
            /\ out' = Executed(Out("ws_resume", ws.command,
                          IF ex.ret THEN "executed" ELSE "not_executed",
                          ex.events, speak_via(actions_speak, SayEvents(ex.events)),
                          FALSE, DispatchAt(ex.events, now)), ex)
       ELSE
            /\ awake_until' = extend_awake(awake, awake_until, now)
            /\ out' = Out("ws_resume", ws.command, "reply", <<>>,
                          speak(<<Say("I'm not sure how to help with that", "")>>),
                          FALSE, NoDispatch)
            /\ UNCHANGED << last_command, pending_action, threads, now >>

(***************************************************************************)
(* The status reads: GET /api/status and the sender coroutine of /ws call  *)
(* state.is_awake() and change nothing else.                               *)
(***************************************************************************)
StatusRead(op) ==
    LET ia == is_awake(awake, awake_until, now)
    IN  /\ awake' = ia.awake
        /\ awake_until' = ia.awake_until
        /\ sleep_notes' = IF ia.notice THEN sleep_notes + 1 ELSE sleep_notes
        /\ out' = Out(op, "", IF ia.ret THEN "awake" ELSE "asleep", <<>>,
                      speak(SleepNotice(ia)), FALSE, NoDispatch)
        /\ UNCHANGED << is_powered_on, is_mic_on, is_volume_on, last_command,
                        pending_action, dedup_vars, speak_vars, ws, now >>

get_status == StatusRead("get_status")

ws_sender == StatusRead("ws_sender")

(***************************************************************************)
(* POST /api/power, /api/mic, /api/volume                                  *)
(***************************************************************************)
toggle_power(b) ==
    /\ is_powered_on' = b
    /\ out' = Out("toggle_power", "", "", <<>>,
                  IF ~b /\ is_powered_on THEN speak(<<Say("Going offline", "")>>) ELSE <<>>,
                  FALSE, NoDispatch)
    /\ UNCHANGED << is_mic_on, is_volume_on, last_command, awake, awake_until,
                    pending_action, dedup_vars, speak_vars, ws, now, sleep_notes >>

toggle_mic(b) ==
    /\ is_mic_on' = b
    /\ out' = Out("toggle_mic", "", "", <<>>, <<>>, FALSE, NoDispatch)
    /\ UNCHANGED << is_powered_on, is_volume_on, last_command, awake, awake_until,
                    pending_action, dedup_vars, speak_vars, ws, now, sleep_notes >>

toggle_volume(b) ==
    /\ is_volume_on' = b
    /\ out' = Out("toggle_volume", "", "", <<>>, <<>>, FALSE, NoDispatch)
    /\ UNCHANGED << is_powered_on, is_mic_on, last_command, awake, awake_until,
                    pending_action, dedup_vars, speak_vars, ws, now, sleep_notes >>

(***************************************************************************)
(* The background threads                                                  *)
(***************************************************************************)
\* the thread of a COMMANDS action runs: its confirmation goes through the
\* speak that app.services.actions names at that moment, then its effect
run_action(a) ==
    /\ a \in threads
    /\ threads' = threads \ {a}
    /\ out' = Out("action_thread", a, "ran",
                  << Say("confirmation", a), [ev |-> "effect", what |-> a, q |-> "", q2 |-> ""] >>,
                  speak_via(actions_speak, <<Say("confirmation", a)>>), FALSE, NoDispatch)
    /\ UNCHANGED << state_vars, dedup_vars, tts_speak, actions_speak, restores, ws, now,
                    sleep_notes >>

\* the thread of action a runs and the action raises before it has done
\* anything: the exception ends the thread and reaches no caller
run_action_raises(a) ==
    /\ a \in threads
    /\ threads' = threads \ {a}
    /\ out' = Out("action_thread", a, "raised", <<>>, <<>>, FALSE, NoDispatch)
    /\ UNCHANGED << state_vars, dedup_vars, tts_speak, actions_speak, restores, ws, now,
                    sleep_notes >>

\* restore_speak: after its one second of sleep, both names get the saved function
restore_speak(r) ==
    /\ r \in restores
    /\ now >= r.at
    /\ restores' = restores \ {r}
    /\ tts_speak' = r.original_speak
    /\ actions_speak' = r.original_speak
    /\ out' = Out("restore_speak", "", "", <<>>, <<>>, FALSE, NoDispatch)
    /\ UNCHANGED << state_vars, dedup_vars, threads, ws, now, sleep_notes >>

(***************************************************************************)
(* The clock                                                               *)
(***************************************************************************)
\* a clock with a timer that puts the session to sleep when the window ends
Tick_with_timer(d) ==
    /\ now + d <= MaxTime
    /\ \A r \in restores : r.at > now
    /\ now' = now + d
    /\ awake' = is_awake(awake, awake_until, now + d).awake
    /\ awake_until' = is_awake(awake, awake_until, now + d).awake_until
    /\ out' = Out("tick", "", "", <<>>, <<>>, FALSE, NoDispatch)
    /\ UNCHANGED << is_powered_on, is_mic_on, is_volume_on, last_command,
                    pending_action, dedup_vars, speak_vars, ws, sleep_notes >>

\* a restore_speak thread whose second of sleep is over runs before the clock
\* advances again
Tick(d) ==
    /\ now + d <= MaxTime
    /\ \A r \in restores : r.at > now
    /\ now' = now + d
    /\ out' = Out("tick", "", "", <<>>, <<>>, FALSE, NoDispatch)
    /\ UNCHANGED << state_vars, dedup_vars, speak_vars, ws, sleep_notes >>

\* an utterance arrives: one more request
Deliver == requests < MaxRequests /\ requests' = requests + 1

\* any other step
Internal == UNCHANGED requests

Next ==
    \/ \E text \in Utterances, answer \in GeminiAnswers, delay \in GeminiDelays :
          Deliver /\ receive_command(text, answer, delay, TRUE)
    \/ \E text \in Utterances : Deliver /\ ws_receive(text)
    \/ \E answer \in GeminiAnswers : Internal /\ ws_resume(answer, TRUE)
    \/ Internal /\ get_status
    \/ Internal /\ ws_sender
    \/ \E b \in BOOLEAN : Internal /\ toggle_power(b)
    \/ \E a \in threads : Internal /\ run_action(a)
    \/ \E r \in restores : Internal /\ restore_speak(r)
    \/ \E d \in TickSteps : Internal /\ Tick(d)

Spec == Init /\ [][Next]_vars

(***************************************************************************)
(* The clarification slice: the same resolvers on the utterances of the    *)
(* search patterns, with the volume switch                                 *)
(***************************************************************************)
NextClarify ==
    \/ \E text \in ClarifyUtterances, answer \in ClarifyAnswers :
          Deliver /\ receive_command(text, answer, 0, TRUE)
    \/ \E text \in ClarifyUtterances : Deliver /\ ws_receive(text)
    \/ \E answer \in ClarifyAnswers : Internal /\ ws_resume(answer, TRUE)
    \/ \E b \in BOOLEAN : Internal /\ toggle_volume(b)
    \/ \E d \in TickSteps : Internal /\ Tick(d)

SpecClarify == Init /\ [][NextClarify]_vars

(***************************************************************************)
(* The switches slice: the three switches of the panel around the wake     *)
(* word, a free-form utterance and the status reads                        *)
(***************************************************************************)
NextSwitches ==
    \/ \E text \in SwitchUtterances, answer \in AnswersWith(SwitchCommands) :
          Deliver /\ receive_command(text, answer, 0, TRUE)
    \/ \E a \in threads : Internal /\ run_action(a)
    \/ \E r \in restores : Internal /\ restore_speak(r)
    \/ Internal /\ get_status
    \/ \E b \in BOOLEAN : Internal /\ toggle_power(b)
    \/ \E b \in BOOLEAN : Internal /\ toggle_mic(b)
    \/ \E b \in BOOLEAN : Internal /\ toggle_volume(b)
    \/ \E d \in TickSteps : Internal /\ Tick(d)

SpecSwitches == Init /\ [][NextSwitches]_vars

(***************************************************************************)
(* The executors alone: execute_command and _execute_command_silent called *)
(* with a text, as the controllers and the voice loop call them            *)
(***************************************************************************)
ExecutorCall(op, ex, command_text, patched) ==
    /\ now + ex.sleep <= MaxTime
    /\ last_command' = command_text
    /\ pending_action' = ex.pending
    /\ tts_speak' = IF patched THEN "silent_speak" ELSE tts_speak
    /\ actions_speak' = IF patched THEN "silent_speak" ELSE actions_speak
    /\ threads' = threads \cup StartedThreads(ex.events)
    /\ restores' = restores \cup StartedRestores(ex.events, now)
    /\ now' = now + ex.sleep
    /\ out' = Executed(Out(op, command_text,
                           IF ex.ret THEN "executed" ELSE "not_executed", ex.events,
                           speak_via(actions_speak, SayEvents(ex.events)), FALSE,
                           DispatchAt(ex.events, now)), ex)
    /\ UNCHANGED << is_powered_on, is_mic_on, is_volume_on, awake, awake_until,
                    dedup_vars, ws, sleep_notes >>

call_execute_command(command_text, start_ok) ==
    ExecutorCall("execute_command",
                 ExecuteTable[pending_action, command_text, start_ok],
                 command_text, FALSE)

call_execute_command_silent(command_text, start_ok) ==
    ExecutorCall("execute_command_silent",
                 ExecuteSilentTable[pending_action, command_text, start_ok],
                 command_text,
                 ExecuteSilentTable[pending_action, command_text, start_ok].patched)

\* execute_command(command_text) when the first webbrowser.open of a
\* parameterized action raises: nothing in the pending resolution, the parser
\* or the executor catches it, so the call ends with the exception, after the
\* assignments and the speak calls that came before the open
call_execute_command_open_raises(command_text) ==
    LET ex    == ExecuteTable[pending_action, command_text, TRUE]
        first == CHOOSE i \in DOMAIN ex.events :
                    /\ ex.events[i].ev = "open"
                    /\ \A j \in 1..(i - 1) : ex.events[j].ev # "open"
        done  == SubSeq(ex.events, 1, first - 1)
    IN  /\ ex.stage \in { "pending", "parser" }
        /\ \E i \in DOMAIN ex.events : ex.events[i].ev = "open"
        /\ last_command' = command_text
        /\ pending_action' = ex.pending
        /\ out' = Executed(Out("execute_command_open_raises", command_text, "exception",
                               done, speak_via(actions_speak, SayEvents(done)),
                               FALSE, NoDispatch), ex)
        /\ UNCHANGED << is_powered_on, is_mic_on, is_volume_on, awake, awake_until,
                        dedup_vars, speak_vars, ws, now, sleep_notes >>

NextExec ==
    \/ \E text \in ExecTexts, start_ok \in BOOLEAN :
          Deliver /\ call_execute_command(text, start_ok)
    \/ \E text \in ExecTexts, start_ok \in BOOLEAN :
          Deliver /\ call_execute_command_silent(text, start_ok)
    \/ \E a \in threads : Internal /\ run_action(a)
    \/ \E a \in threads : Internal /\ run_action_raises(a)
    \/ \E text \in ExecTexts : Deliver /\ call_execute_command_open_raises(text)
    \/ \E r \in restores : Internal /\ restore_speak(r)
    \/ \E d \in TickSteps : Internal /\ Tick(d)

SpecExec == Init /\ [][NextExec]_vars

(***************************************************************************)
(* The parser alone: execute_command called with the texts of ParserTexts, *)
(* none of which reaches the fixed-keyword table with a trigger in it      *)
(***************************************************************************)
NextParse ==
    \/ \E text \in ParserTexts : Deliver /\ call_execute_command(text, TRUE)
    \/ \E text \in ParserTexts : Deliver /\ call_execute_command_silent(text, TRUE)
    \/ \E d \in TickSteps : Internal /\ Tick(d)

SpecParse == Init /\ [][NextParse]_vars

(***************************************************************************)
(* The methods of SystemState called one by one, between utterances        *)
(* resolved by POST /api/command and status reads                          *)
(***************************************************************************)
\* a method of SystemState that leaves everything but awake and awake_until
MethodCall(op) ==
    /\ out' = Out(op, "", "", <<>>, <<>>, FALSE, NoDispatch)
    /\ UNCHANGED << is_powered_on, is_mic_on, is_volume_on, last_command,
                    pending_action, dedup_vars, speak_vars, ws, now >>

call_wake_up ==
    /\ awake' = wake_up(now).awake
    /\ awake_until' = wake_up(now).awake_until
    /\ sleep_notes' = 0
    /\ MethodCall("wake_up")

call_extend_awake ==
    /\ awake_until' = extend_awake(awake, awake_until, now)
    /\ UNCHANGED << awake, sleep_notes >>
    /\ MethodCall("extend_awake")

call_sleep_now ==
    /\ awake' = sleep_now.awake
    /\ awake_until' = sleep_now.awake_until
    /\ UNCHANGED sleep_notes
    /\ MethodCall("sleep_now")

\* state.reset()
reset ==
    /\ is_powered_on' = TRUE
    /\ is_mic_on' = TRUE
    /\ is_volume_on' = TRUE
    /\ last_command' = ""
    /\ awake' = FALSE
    /\ pending_action' = None
    /\ out' = Out("reset", "", "", <<>>, <<>>, FALSE, NoDispatch)
    /\ UNCHANGED << awake_until, dedup_vars, speak_vars, ws, now, sleep_notes >>

NextState ==
    \/ \E text \in { "Friday", "search", "kittens" }, answer \in AnswersWith({ "search" }),
          delay \in GeminiDelays :
          Deliver /\ receive_command(text, answer, delay, TRUE)
    \/ Internal /\ get_status
    \/ Internal /\ call_wake_up
    \/ Internal /\ call_extend_awake
    \/ Internal /\ call_sleep_now
    \/ Internal /\ reset
    \/ \E d \in TickSteps : Internal /\ Tick(d)

SpecState == Init /\ [][NextState]_vars

(***************************************************************************)
(* The pending slice: everything that runs while a clarification may be    *)
(* pending: the resolver on a bare "search", the session methods, reset,   *)
(* the status read and the three switches                                  *)
(***************************************************************************)
NextPending ==
    \/ \E text \in { "Friday", "search" }, answer \in AnswersWith({ "search" }) :
          Deliver /\ receive_command(text, answer, 0, TRUE)
    \/ Internal /\ get_status
    \/ Internal /\ call_wake_up
    \/ Internal /\ call_extend_awake
    \/ Internal /\ call_sleep_now
    \/ Internal /\ reset
    \/ \E b \in BOOLEAN : Internal /\ toggle_power(b)
    \/ \E b \in BOOLEAN : Internal /\ toggle_mic(b)
    \/ \E b \in BOOLEAN : Internal /\ toggle_volume(b)
    \/ \E d \in TickSteps : Internal /\ Tick(d)

SpecPending == Init /\ [][NextPending]_vars

(***************************************************************************)
(* Silent executions of fixed-keyword commands whose threads all start     *)
(***************************************************************************)
NextSilent ==
    \/ \E text \in { "open google", "Open Google Docs" } :
          Deliver /\ call_execute_command_silent(text, TRUE)
    \/ \E a \in threads : Internal /\ run_action(a)
    \/ \E r \in restores : Internal /\ restore_speak(r)
    \/ \E d \in TickSteps : Internal /\ Tick(d)

SpecSilent == Init /\ [][NextSilent]_vars

(***************************************************************************)
(* Properties.  Every step records in out what it was and what it did, so  *)
(* a property of an operation is a property of the steps of that operation.*)
(***************************************************************************)
\* the command a resolver works on: data.command.lower().strip()
Normalised(text) == Strip(Lower(text))

\* the steps of the two resolvers that take an utterance in
ReceiveOps == { "receive_command", "ws_receive" }

\* the steps of the two resolvers in which an utterance is processed awake
ProcessedAwake(o) ==
    /\ o.op \in { "receive_command", "ws_resume" }
    /\ o.result \in { "executed", "not_executed", "reply" }

\* the steps that are a call of one of the two executors alone
ExecutorOps == { "execute_command", "execute_command_silent" }

\* the session has timed out and no is_awake() call has noticed yet
Expired == awake /\ awake_until # <<>> /\ now > awake_until[1]

\* the triggers of COMMANDS that occur in command
TriggersIn(command) ==
    { COMMANDS[i][1] : i \in { j \in DOMAIN COMMANDS : Contains(command, COMMANDS[j][1]) } }

\* the same for the texts the executors are called with, computed once
TriggersOfText ==
    [t \in ExecTexts |-> Bind(Normalised(t), LAMBDA command : TriggersIn(command))]

\* whether the parser handles the text, computed once
ParserHandles ==
    [t \in ExecTexts |->
        Bind(Normalised(t), LAMBDA command : parse_and_execute_search(command).handled)]

\* the action COMMANDS holds for keyword
ActionFor(keyword) ==
    COMMANDS[CHOOSE i \in DOMAIN COMMANDS : COMMANDS[i][1] = keyword][2]

\* the shapes of the parser in their priority order
ParserShapes ==
    << "compound", "play_on_spotify", "play_on_youtube", "search_on_youtube",
       "search_on_spotify", "search_on_reddit", "search_on_github", "google",
       "search", "bare_search", "bare_play", "play", "look_up", "bare_look_up" >>

\* the match of one shape in command
ShapeFound(shape, command) ==
    CASE shape = "compound"          -> re_search(ReCompound, command, 2)
      [] shape = "play_on_spotify"   -> re_search(ReOn("play", "spotify"), command, 1)
      [] shape = "play_on_youtube"   -> re_search(ReOn("play", "youtube"), command, 1)
      [] shape = "search_on_youtube" -> re_search(ReOn("search", "youtube"), command, 1)
      [] shape = "search_on_spotify" -> re_search(ReOn("search", "spotify"), command, 1)
      [] shape = "search_on_reddit"  -> re_search(ReOn("search", "reddit"), command, 1)
      [] shape = "search_on_github"  -> re_search(ReOn("search", "github"), command, 1)
      [] shape = "google"            -> re_search(ReGoogle, command, 2)
      [] shape = "search"            -> re_search(ReSearch, command, 1)
      [] shape = "bare_search"       -> re_match(ReBareSearch, command, 0)
      [] shape = "bare_play"         -> re_match(ReBarePlay, command, 0)
      [] shape = "play"              -> re_search(RePlay, command, 1)
      [] shape = "look_up"           -> re_search(ReLookUp, command, 1)
      [] shape = "bare_look_up"      -> re_match(ReBareLookUp, command, 0)

\* what a shape that matched with m does: the URLs it opens, in order, and
\* the pending action it sets (None: none)
ShapeOutcome(shape, m) ==
    LET q == IF Len(m.groups) >= 1 /\ m.groups[1] # None THEN Strip(m.groups[1]) ELSE ""
        opens(site) == [shape |-> shape, opens |-> <<Open(site, q)>>, pending |-> None]
        asks(p)     == [shape |-> shape, opens |-> <<>>, pending |-> p]
    IN  CASE shape = "compound" ->
                [shape |-> shape, pending |-> None,
                 opens |-> << Open("google.com/search", q),
                              Open("youtube.com/results",
                                   OrStr(Strip(m.groups[2]), q)) >>]
          [] shape = "play_on_spotify"   -> opens("open.spotify.com/search")
          [] shape = "play_on_youtube"   -> opens("youtube.com/results")
          [] shape = "search_on_youtube" -> opens("youtube.com/results")
          [] shape = "search_on_spotify" -> opens("open.spotify.com/search")
          [] shape = "search_on_reddit"  -> opens("reddit.com/search")
          [] shape = "search_on_github"  -> opens("github.com/search")
          [] shape = "google" ->
                [shape |-> shape, pending |-> None,
                 opens |-> <<Open("google.com/search",
                                  Strip(OrStr(m.groups[1], m.groups[2])))>>]
          [] shape = "search"            -> opens("google.com/search")
          [] shape = "bare_search"       -> asks("search_google")
          [] shape = "bare_play"         -> asks("play_music")
          [] shape = "play"              -> opens("youtube.com/results")
          [] shape = "look_up"           -> opens("youtube.com/results")
          [] shape = "bare_look_up"      -> asks("search_youtube")

\* the outcome of the first shape of the priority order that matches command
FirstShape(command) ==
    Bind([i \in DOMAIN ParserShapes |-> ShapeFound(ParserShapes[i], command)], LAMBDA found :
        Bind({ i \in DOMAIN ParserShapes : found[i].ok }, LAMBDA hits :
            IF hits = {}
            THEN [shape |-> "none", opens |-> <<>>, pending |-> None]
            ELSE Bind(CHOOSE i \in hits : \A j \in hits : i <= j, LAMBDA i :
                    ShapeOutcome(ParserShapes[i], found[i]))))

\* the shapes that match command
ShapesIn(command) ==
    { ParserShapes[i] : i \in { j \in DOMAIN ParserShapes :
                                 ShapeFound(ParserShapes[j], command).ok } }

\* both for the texts the parser is exercised with, computed once
FirstShapeOfText ==
    [t \in ParserTexts |-> Bind(Normalised(t), LAMBDA command : FirstShape(command))]

ShapesOfText ==
    [t \in ParserTexts |-> Bind(Normalised(t), LAMBDA command : ShapesIn(command))]

\* C1: whenever a resolver dispatches an action, on either channel and
\* however long the classifier took, the session is awake at that moment:
\* the awake flag is true and awake_until has not passed.
C1_DispatchOnlyWhileAwake ==
    [][ out'.dispatch # NoDispatch =>
            /\ out'.dispatch[1].awake
            /\ out'.dispatch[1].awake_until # <<>>
            /\ out'.dispatch[1].at <= out'.dispatch[1].awake_until[1] ]_vars

\* C2: while powered on, a non-duplicate utterance that contains "friday"
\* always performs wake_up(): afterwards awake is true and awake_until is
\* now + awake_duration, asleep or already awake before; the result is the
\* wake result, nothing is dispatched and pending_action is left alone.
C2_WakePhraseWakes ==
    [][ /\ out'.op \in ReceiveOps
        /\ is_powered_on
        /\ Contains(Normalised(out'.text), "friday")
        /\ ~(Normalised(out'.text) = dd_last_command
             /\ now - dd_last_time < duplicate_window)
        => /\ awake'
           /\ awake_until' = <<now + awake_duration>>
           /\ out'.result = "wake"
           /\ out'.spoken = IF is_volume_on THEN Greeting ELSE <<>>
           /\ out'.events = <<>>
           /\ out'.dispatch = NoDispatch
           /\ threads' = threads
           /\ pending_action' = pending_action ]_vars

\* a second wake phrase, eight seconds after the start, moved the window
C2_Witness ==
    /\ out.op \in ReceiveOps
    /\ out.result = "wake"
    /\ requests = 2
    /\ now = 8
    /\ awake
    /\ awake_until = <<now + awake_duration>>

\* C3: is_awake() right after wake_up() is true.  Once the clock is past
\* awake_until, the first is_awake() call (a status read of either channel or
\* a resolver pass) returns false, clears awake and awake_until and sends the
\* sleep notification; the notification is sent once per expiry, and no call
\* that finds the session asleep or still in its window sends it.
C3_ExpiryNoticedOnce ==
    [][ /\ out'.result = "wake" => is_awake(awake', awake_until', now').ret
        /\ ( /\ Expired
             /\ \/ out'.op \in { "get_status", "ws_sender" }
                \/ out'.op \in ReceiveOps /\ out'.result \notin { "duplicate", "wake" }
             => /\ ~awake'
                /\ awake_until' = <<>>
                /\ out'.result \in { "asleep", "waiting" }
                /\ sleep_notes' = sleep_notes + 1
                /\ is_powered_on /\ is_volume_on
                     => out'.spoken = <<Say("Sleep mode activated", "")>> )
        /\ sleep_notes' > sleep_notes => Expired
        /\ sleep_notes' <= 1 ]_vars

\* a status read of the WebSocket sender finds the session asleep after the
\* one notification of this expiry was sent
C3_Witness ==
    /\ out.op = "ws_sender"
    /\ out.result = "asleep"
    /\ out.spoken = <<>>
    /\ sleep_notes = 1
    /\ ~awake
    /\ awake_until = <<>>

\* C4: every utterance processed awake (a command the classifier mapped,
\* executed or not, or a free-form reply) extends the window: when the
\* resolver returns, awake is true and awake_until is the time of the
\* extension plus awake_duration.
C4_ProcessedAwakeExtends ==
    [][ ProcessedAwake(out') =>
            awake' /\ awake_until' = <<now' + awake_duration>> ]_vars

\* C5: while is_powered_on is false a resolver returns an offline result and
\* does nothing else: awake, awake_until and pending_action stay, the
\* classifier is not called and nothing is dispatched.
C5_OfflineIgnoresUtterances ==
    [][ out'.op \in ReceiveOps /\ ~is_powered_on =>
            /\ out'.result = "offline"
            /\ UNCHANGED << awake, awake_until, pending_action >>
            /\ ~out'.asked
            /\ out'.dispatch = NoDispatch ]_vars

\* C6: an utterance that arrives less than duplicate_window seconds after
\* the same utterance was accepted gets the duplicate result and nothing
\* else happens: the session fields and pending_action stay (a repeated wake
\* phrase does not wake or extend), the classifier is not called, nothing is
\* spoken and nothing is dispatched.
C6_DuplicateDoesNothing ==
    [][ /\ out'.op \in ReceiveOps
        /\ Normalised(out'.text) = dd_last_command
        /\ now - dd_last_time < duplicate_window
        => /\ out'.result = "duplicate"
           /\ UNCHANGED << state_vars, speak_vars, ws, now, sleep_notes >>
           /\ ~out'.asked
           /\ out'.spoken = <<>>
           /\ out'.events = <<>>
           /\ out'.dispatch = NoDispatch ]_vars

\* the wake phrase again after four seconds: the window of the first stays
C6_Witness ==
    /\ out.op \in ReceiveOps
    /\ out.result = "duplicate"
    /\ Normalised(out.text) = "friday"
    /\ now = 4
    /\ awake
    /\ awake_until = <<awake_duration>>

\* C7: processed awake, the bare utterance "search" is handled and sets
\* pending_action to search_google; the next utterance processed awake is
\* taken verbatim, whatever it is, as the query of search_google and
\* pending_action is cleared; without a pending action no utterance is
\* resolved as one.
C7_ClarificationRoundTrip ==
    [][ ProcessedAwake(out') =>
            /\ Normalised(out'.text) = "search" /\ pending_action = None
                 => out'.result = "executed" /\ pending_action' = "search_google"
            /\ pending_action = "search_google"
                 => /\ out'.events = search_google(Normalised(out'.text))
                    /\ pending_action' = None
            /\ pending_action = None => out'.stage # "pending" ]_vars

\* C8: with pending_action set, execute_command and _execute_command_silent
\* give the whole text, whatever it is, to the pending action: that one
\* parameterized action fires, no pattern and no fixed trigger does, no new
\* pending action is set and pending_action is empty afterwards.
C8_PendingHasPriority ==
    [][ out'.op \in ExecutorOps /\ pending_action # None =>
            /\ out'.result = "executed"
            /\ out'.events = PendingCall(pending_action, Normalised(out'.text))
            /\ Len(Dispatched(out'.events)) = 1
            /\ out'.keyword = None
            /\ threads' = threads
            /\ restores' = restores
            /\ pending_action' = None ]_vars

\* after a bare "play", the text "play x on spotify" became the song played
C8_Witness ==
    /\ out.op = "execute_command_silent"
    /\ out.text = "play x on spotify"
    /\ out.events = play_music("play x on spotify")
    /\ pending_action = None

\* C9: when the fixed-keyword lookup is reached, it selects a trigger of
\* maximal length among those that occur in the lower-cased, trimmed command
\* and starts the action of that trigger and no other; it reports a match
\* exactly when some trigger occurs in the command (and its thread starts).
C9_LongestTriggerWins ==
    [][ /\ out'.op \in ExecutorOps
        /\ pending_action = None
        /\ ~ParserHandles[out'.text]
        => LET hits == TriggersOfText[out'.text]
           IN  /\ out'.keyword # None <=> hits # {}
               /\ out'.keyword # None
                    => /\ out'.keyword \in hits
                       /\ \A k \in hits : Len(k) <= Len(out'.keyword)
               /\ out'.stage # "error" => (out'.result = "executed" <=> hits # {})
               /\ out'.result = "executed"
                    => /\ ActionsOf(out'.events) = <<Thread(ActionFor(out'.keyword))>>
                       /\ threads' = threads \cup { ActionFor(out'.keyword) } ]_vars

\* "please open google drive now" started open_drive, not open_google
C9_Witness ==
    /\ out.op = "execute_command"
    /\ out.text = "please open google drive now"
    /\ out.keyword = "open google drive"
    /\ out.events = <<Thread("open_drive")>>
    /\ "open google" \in TriggersOfText[out.text]

\* C10: processed awake with no pending action, the compound utterance
\* "search kittens and play music" performs two actions in order: a search
\* for "kittens", then a play of "kittens".
C10_CompoundSearchAndPlay ==
    [][ /\ ProcessedAwake(out')
        /\ Normalised(out'.text) = "search kittens and play music"
        /\ pending_action = None
        => Dispatched(out'.events) = << Open("google.com/search", "kittens"),
                                        Open("youtube.com/results", "kittens") >> ]_vars

\* C11: with no pending action, the first shape of the priority order that
\* matches the command alone determines what the parser does: the URLs it
\* opens and the pending action it sets are those of that shape (compound
\* before the single-verb shapes, "play X on spotify" a Spotify search,
\* "search X on <site>" that site's search, a bare verb a clarification and
\* nothing opened); when no shape matches the parser handles nothing, opens
\* nothing and leaves pending_action alone.
C11_FirstShapeDecides ==
    [][ out'.op \in ExecutorOps /\ pending_action = None /\ out'.text \in ParserTexts =>
            LET first == FirstShapeOfText[out'.text]
            IN  /\ out'.stage = "parser" <=> first.shape # "none"
                /\ Dispatched(out'.events) = first.opens
                /\ pending_action' = first.pending
                /\ first.shape # "none" => out'.result = "executed"
                /\ first.pending # None => Len(out'.events) = 1
                /\ first.shape = "none" => threads' = threads ]_vars

\* "search x on reddit", which has the form of the default search too, opened
\* the Reddit search
C11_Witness ==
    /\ out.op = "execute_command"
    /\ out.text = "search x on reddit"
    /\ { "search_on_reddit", "search" } \subseteq ShapesOfText[out.text]
    /\ Dispatched(out.events) = <<Open("reddit.com/search", "x")>>
    /\ pending_action = None

\* C12: a non-duplicate utterance that contains a sleep phrase, resolved
\* while the session is awake, ends with awake false and awake_until None
\* and gets the sleep result; resolved while the session is not awake it
\* causes no sleep result and no farewell.
C12_SleepPhraseSleeps ==
    [][ /\ out'.op \in ReceiveOps
        /\ IsSleepPhrase(Normalised(out'.text))
        /\ ~is_duplicate(Normalised(out'.text), now)
        => IF is_awake(awake, awake_until, now).ret
           THEN ~awake' /\ awake_until' = <<>> /\ out'.result = "sleep"
           ELSE out'.result # "sleep" /\ out'.spoken # speak(Farewell) ]_vars

\* C13 as stated: when is_awake() is false and the utterance is neither a
\* duplicate nor has the wake word, the resolver answers "waiting" and has
\* no side effect: the classifier is not called, nothing is dispatched,
\* nothing is spoken, and awake, awake_until, pending_action and last_command
\* are unchanged.
C13_WaitingNoSideEffects ==
    [][ /\ out'.op \in ReceiveOps
        /\ ~is_duplicate(Normalised(out'.text), now)
        /\ ~Contains(Normalised(out'.text), "friday")
        /\ ~is_awake(awake, awake_until, now).ret
        => /\ out'.result = "waiting"
           /\ ~out'.asked
           /\ out'.dispatch = NoDispatch /\ out'.events = <<>> /\ threads' = threads
           /\ out'.spoken = <<>>
           /\ UNCHANGED << awake, awake_until, pending_action, last_command >> ]_vars

\* C13 amended: in that case the resolver answers "waiting", the classifier
\* is not called, nothing is dispatched and pending_action and last_command
\* are unchanged; the only effects are those of the is_awake() call itself:
\* if the window has expired and no call has noticed yet, awake and
\* awake_until are cleared and the sleep notification is spoken; otherwise
\* awake and awake_until are unchanged and nothing is spoken.
C13_WaitingOnlyNoticesExpiry ==
    [][ /\ out'.op \in ReceiveOps
        /\ ~is_duplicate(Normalised(out'.text), now)
        /\ ~Contains(Normalised(out'.text), "friday")
        /\ ~is_awake(awake, awake_until, now).ret
        => /\ out'.result = "waiting"
           /\ ~out'.asked
           /\ out'.dispatch = NoDispatch /\ out'.events = <<>> /\ threads' = threads
           /\ UNCHANGED << pending_action, last_command, speak_vars >>
           /\ IF Expired
              THEN /\ ~awake' /\ awake_until' = <<>>
                   /\ out'.spoken = speak(<<Say("Sleep mode activated", "")>>)
              ELSE /\ UNCHANGED << awake, awake_until >>
                   /\ out'.spoken = <<>> ]_vars

\* an utterance found the window expired: it got "waiting" and the sleep
\* notification was spoken
C13_Witness ==
    /\ out.op \in ReceiveOps
    /\ out.result = "waiting"
    /\ Normalised(out.text) = "kittens"
    /\ out.spoken = <<Say("Sleep mode activated", "")>>
    /\ ~awake
    /\ awake_until = <<>>

\* C14: extend_awake() on a sleeping session does nothing: when a resolver
\* finishes processing an utterance (executed or answered) and the session
\* is asleep by then, awake stays false and awake_until stays None.
C14_ExtendAsleepIsNoOp ==
    [][ ProcessedAwake(out') /\ ~awake =>
            /\ ~awake'
            /\ awake_until' = awake_until
            /\ awake_until' = <<>> ]_vars

\* the WebSocket receiver came back from the classifier with a reply after
\* the session had been put to sleep, and called extend_awake()
C14_Witness ==
    /\ out.op = "ws_resume"
    /\ out.result = "reply"
    /\ ~awake
    /\ awake_until = <<>>

\* C15: the classifier is consulted only when the local rules fail: a
\* resolver that calls ask_gemini for an utterance has no pending action to
\* resolve, and neither the parser nor the fixed-keyword table matches the
\* utterance.
C15_LocalRulesBeforeClassifier ==
    [][ out'.op \in ReceiveOps /\ out'.asked =>
            ~ExecuteTable[pending_action, Normalised(out'.text), TRUE].ret ]_vars

\* C16: when a resolver executes the command the classifier mapped the
\* utterance to and an action is performed (by the pending resolution, the
\* parser or the fixed-keyword table), the only line spoken is the
\* classifier's reply: the action's own confirmation is not spoken.
C16_MappedCommandIsSilent ==
    [][ /\ ProcessedAwake(out')
        /\ out'.result = "executed"
        /\ ActionsOf(out'.events) # <<>>
        => \A i \in DOMAIN out'.spoken : out'.spoken[i].what = "gemini" ]_vars

\* C17: the substitution of silent_speak is temporary: once every
\* restore_speak thread has run, tts.speak and actions.speak name the real
\* speak again.
C17_SpeakRestored ==
    restores = {} => tts_speak = "speak" /\ actions_speak = "speak"

\* the apology of the except branch
Apology == <<Say("I encountered an error executing that command", "")>>

\* C18: when invoking the action of the matched trigger raises, the lookup
\* has failed: the executor returns False, the apology is spoken and no
\* action is started, neither that of the matched trigger nor that of a
\* shorter one; and an action that raises while it runs is apologised for.
C18_RaisingActionFails ==
    [][ /\ out'.op \in ExecutorOps /\ out'.stage = "error"
            => /\ out'.result = "not_executed"
               /\ out'.spoken = speak(Apology)
               /\ ActionsOf(out'.events) = <<>>
               /\ threads' = threads
        /\ out'.op = "action_thread" /\ out'.result = "raised"
            => out'.spoken = speak(Apology) ]_vars

\* C19: an is_duplicate() call that returns true leaves last_command and
\* last_command_time as they were, and one that returns false registers the
\* command and the time of the call; so an utterance that arrives
\* duplicate_window seconds or more after the same utterance was last
\* accepted is accepted, whatever was suppressed in between.
C19_DuplicateKeepsRegistration ==
    [][ out'.op \in ReceiveOps =>
            /\ out'.result = "duplicate" => UNCHANGED dedup_vars
            /\ out'.result # "duplicate"
                  => dd_last_command' = Normalised(out'.text) /\ dd_last_time' = now
            /\ Normalised(out'.text) = dd_last_command
                  /\ now - dd_last_time >= duplicate_window
                  => out'.result # "duplicate" ]_vars

\* "kittens" was accepted at 0 and its repeat suppressed at 4: the time
\* registered is still 0, so the window ends at 5 and not at 9
C19_Witness ==
    /\ out.op \in ReceiveOps
    /\ out.result = "duplicate"
    /\ Normalised(out.text) = "kittens"
    /\ requests = 2
    /\ now = 4
    /\ dd_last_command = "kittens"
    /\ dd_last_time = 0

\* C20: whoever calls it (greeting, farewell, power-off line, confirmation
\* of an action, sleep notification, classifier reply), speak() does nothing
\* while is_powered_on or is_volume_on is false at the time of the call: no
\* playback thread, the only code that sets is_speaking, is started.
C20_MutedSpeakIsNoOp ==
    [][ ~(is_powered_on /\ is_volume_on) => out'.spoken = <<>> ]_vars

\* the wake word with the volume off: the session woke, no greeting played
C20_Witness ==
    /\ out.op = "receive_command"
    /\ out.result = "wake"
    /\ is_powered_on /\ ~is_volume_on
    /\ awake
    /\ out.spoken = <<>>

\* C21: after reset() every field of SystemState has the value __init__
\* gives it, whatever the state before: the switches on, last_command
\* empty, awake false, awake_until None and pending_action None.
C21_ResetRestoresDefaults ==
    [][ out'.op = "reset" =>
            /\ is_powered_on' /\ is_mic_on' /\ is_volume_on'
            /\ last_command' = ""
            /\ ~awake'
            /\ awake_until' = <<>>
            /\ pending_action' = None ]_vars

\* C22: when a parameterized action called by the pending resolution or by
\* the parser raises, the executor returns not-executed instead of letting
\* the exception out, and pending_action is what it was before the call.
C22_RaisingParameterizedAction ==
    [][ out'.op = "execute_command_open_raises" =>
            /\ out'.result = "not_executed"
            /\ pending_action' = pending_action ]_vars

\* C23: in every state reached by wake_up, extend_awake, sleep_now,
\* is_awake, reset and resolver calls as time advances, awake true implies
\* awake_until is not None; and whenever is_awake() returns true,
\* awake_until is not earlier than the time of the call.
C23_AwakeHasDeadline ==
    /\ awake => awake_until # <<>>
    /\ is_awake(awake, awake_until, now).ret
          => awake_until # <<>> /\ now <= awake_until[1]

\* a status read at the very end of the window found the session awake
C23_Witness ==
    /\ out.op = "get_status"
    /\ out.result = "awake"
    /\ awake
    /\ awake_until = <<now>>
    /\ now = awake_duration

\* C24: the timeout is noticed lazily.  awake goes from true to false only
\* in sleep_now(), in reset(), or in an is_awake() call that finds the clock
\* past awake_until; the clock alone changes neither awake nor awake_until,
\* so awake may be true with awake_until in the past; and the sleep
\* notification is spoken only by the call that notices the expiry.
C24_TimeoutIsLazy ==
    [][ /\ awake /\ ~awake'
            => \/ out'.op \in { "sleep_now", "reset" }
               \/ out'.op = "receive_command" /\ out'.result = "sleep"
               \/ /\ out'.op \in { "get_status", "receive_command" }
                  /\ Expired
                  /\ out'.result \in { "asleep", "waiting" }
        /\ out'.op = "tick"
            => UNCHANGED << awake, awake_until >> /\ out'.spoken = <<>>
        /\ sleep_notes' > sleep_notes
            => /\ Expired
               /\ out'.op \in { "get_status", "receive_command" }
               /\ out'.spoken = speak(<<Say("Sleep mode activated", "")>>) ]_vars

\* the clock has passed awake_until and the flag is still set: no status
\* read and no utterance has come since
C24_Witness ==
    /\ out.op = "tick"
    /\ awake
    /\ awake_until # <<>>
    /\ now > awake_until[1]
    /\ sleep_notes = 0

\* C25: once the clock has passed awake_until only a wake-up opens a new
\* window: whenever a step other than a wake-up moves awake_until forward,
\* the extension was made at a time that was still within the old window.
C25_NoExtensionAfterExpiry ==
    [][ /\ out'.result # "wake" /\ out'.op # "wake_up"
        /\ awake_until # <<>> /\ awake_until' # <<>>
        /\ awake_until' # awake_until
        => awake_until'[1] - awake_duration <= awake_until[1] ]_vars

C27_PendingFrame ==
    [][ /\ pending_action' # pending_action =>
              \/ /\ out'.stage = "parser"
                 /\ pending_action = None
                 /\ pending_action' \in PendingActions
              \/ out'.stage = "pending" /\ pending_action' = None
              \/ out'.op = "reset" /\ pending_action' = None
        /\ /\ pending_action # None
           /\ out'.result \in { "executed", "not_executed" }
           => /\ out'.stage = "pending"
              /\ pending_action' = None
              /\ out'.events = PendingCall(pending_action, Normalised(last_command')) ]_vars

\* a status read has just noticed that the window ran out, and the
\* clarification asked for in that session is still pending
C27_Witness ==
    /\ out.op = "get_status"
    /\ sleep_notes = 1
    /\ ~awake
    /\ pending_action = "search_google"

\* the branch receive_command takes on text in the current state, by the
\* name of its outcome ("asking": it goes on to the classifier)
receive_command_branch(text) ==
    IF is_duplicate(Normalised(text), now) THEN "duplicate"
    ELSE IF Contains(Normalised(text), "friday") THEN "wake"
    ELSE IF IsSleepPhrase(Normalised(text)) /\ is_awake(awake, awake_until, now).ret
         THEN "sleep"
    ELSE IF is_awake(awake, awake_until, now).ret THEN "asking"
    ELSE "waiting"

\* C28: the WebSocket receiver resolves an utterance as the HTTP handler
\* would from the same state: it takes the same branch on the utterance (a
\* sleep phrase puts an awake session to sleep), and with the classifier's
\* answer it does what the handler does: the same calls, the same pending
\* action, the confirmations silenced, the classifier's reply spoken.
C28_ChannelsAgree ==
    [][ /\ out'.op = "ws_receive" => out'.result = receive_command_branch(out'.text)
        /\ /\ out'.op = "ws_resume"
           /\ out'.result \in { "executed", "not_executed" }
           => /\ out'.events = ExecuteSilentTable[pending_action, last_command', TRUE].events
              /\ pending_action' = ExecuteSilentTable[pending_action, last_command', TRUE].pending
              /\ ExecuteSilentTable[pending_action, last_command', TRUE].patched
                    => actions_speak' = "silent_speak"
        /\ out'.op = "ws_resume" /\ out'.result = "reply"
           => out'.spoken = speak(<<Say("gemini", "reply")>>) ]_vars

\* C29: the deduplicator compares an utterance with the last accepted one
\* only: an utterance that differs from it is accepted and registered, however
\* recently the same text was accepted before it.  In A, B, A the second A
\* follows B, so it is accepted inside the window of the first A.
C29_OnlyLastUtteranceRemembered ==
    [][ /\ out'.op \in ReceiveOps
        /\ Normalised(out'.text) # dd_last_command
        => /\ out'.result # "duplicate"
           /\ dd_last_command' = Normalised(out'.text)
           /\ dd_last_time' = now ]_vars

\* "Friday", then "kittens" on the WebSocket (still at the classifier), then
\* "Friday" again, all at time 0: the second "Friday" woke the session again
C29_Witness ==
    /\ requests = 3
    /\ now = 0
    /\ ws.pc = "gemini"
    /\ ws.command = "kittens"
    /\ out.op = "receive_command"
    /\ out.text = "Friday"
    /\ out.result = "wake"

\* C30: state.pending_action is always None, search_google, play_music or
\* search_youtube: the parser asks for a clarification in three places only,
\* so the Spotify, Reddit and GitHub branches of the pending resolution are
\* never taken.
C30_PendingActionValues ==
    pending_action \in { None, "search_google", "play_music", "search_youtube" }

\* the bare YouTube search has just asked what to look for
C30_Witness ==
    /\ out.op \in ExecutorOps
    /\ out.stage = "parser"
    /\ out.text = "youtube search"
    /\ pending_action = "search_youtube"

=============================================================================
